---- MODULE Spec2Model ----
(***************************************************************************)
(* didYouMean.js 1.0.0: the matcher didYouMean(str, list, key), its four   *)
(* options, and the Levenshtein routine getEditDistance(a, b).             *)
(*                                                                         *)
(* JavaScript values are tagged records.  A string is the sequence of its  *)
(* UTF-16 code units (65 = 'A', 97 = 'a', 98 = 'b'); a number is the       *)
(* fraction num/den, so that threshold * str.length is computed exactly;   *)
(* an object carries its identity (ref) and the value of its "id"          *)
(* property, Undefined when it has none.                                   *)
(***************************************************************************)
EXTENDS Integers, Sequences, FiniteSets

\* ------------------------------------------------------------- bounds

\* Longest input string of a didYouMean call.
MaxStrLen == 3

\* Longest candidate list of a didYouMean call.
MaxListLen == 2

\* Longest argument of a direct getEditDistance call.
MaxDistLen == 3

\* ---------------------------------------------------------- JS values

Undefined == [t |-> "undefined"]

Null == [t |-> "null"]

Bool(b) == [t |-> "boolean", b |-> b]

Num(n, d) == [t |-> "number", num |-> n, den |-> d]

Str(s) == [t |-> "string", s |-> s]

Obj(r, v) == [t |-> "object", ref |-> r, id |-> v]

Error(name) == [t |-> "error", name |-> name]

\* ToBoolean, as applied by !x, x && y, x || y and if (x).
ToBoolean(v) ==
  CASE v.t = "undefined" -> FALSE
    [] v.t = "null" -> FALSE
    [] v.t = "boolean" -> v.b
    [] v.t = "number" -> v.num # 0
    [] v.t = "string" -> Len(v.s) > 0
    [] OTHER -> TRUE

\* String.prototype.toLowerCase on a sequence of code units.
toLowerCase(s) ==
  [n \in 1..Len(s) |-> IF s[n] \in 65..90 THEN s[n] + 32 ELSE s[n]]

\* candidate[key]: reading a property of a value that is neither null nor
\* undefined.  Only objects carry the property; a string or a number has
\* no own property of that name.
GetProp(v, k) ==
  IF v.t = "object" /\ k = Str(<<105, 100>>) THEN v.id ELSE Undefined

Min(x, y) == IF x <= y THEN x ELSE y

\* ---------------------------------------------------- getEditDistance

\* Faulty variant: a substitution costs nothing.
RECURSIVE matrixCell_freeSubstitution(_, _, _, _)
matrixCell_freeSubstitution(a, b, i, j) ==
  IF i = 0 THEN j
  ELSE IF j = 0 THEN i
  ELSE IF b[i] = a[j] THEN matrixCell_freeSubstitution(a, b, i - 1, j - 1)
  ELSE Min(matrixCell_freeSubstitution(a, b, i - 1, j - 1),
           Min(matrixCell_freeSubstitution(a, b, i, j - 1) + 1,
               matrixCell_freeSubstitution(a, b, i - 1, j) + 1))

\* matrix[i][j] once the loops have filled it: row i is a prefix of b,
\* column j a prefix of a.
RECURSIVE matrixCell(_, _, _, _)
matrixCell(a, b, i, j) ==
  IF i = 0 THEN j
  ELSE IF j = 0 THEN i
  ELSE IF b[i] = a[j] THEN matrixCell(a, b, i - 1, j - 1)
  ELSE Min(matrixCell(a, b, i - 1, j - 1) + 1,
           Min(matrixCell(a, b, i, j - 1) + 1,
               matrixCell(a, b, i - 1, j) + 1))

getEditDistance(a, b) ==
  IF Len(a) = 0 THEN Len(b)
  ELSE IF Len(b) = 0 THEN Len(a)
  ELSE matrixCell(a, b, Len(b), Len(a))

\* ------------------------------------------------------------- inputs

Strings(alphabet, n) == UNION {[1..k -> alphabet] : k \in 0..n}

\* What a caller passes as str: a string over 'A' and 'a', or nothing.
StrArgs == {Str(s) : s \in Strings({65, 97}, MaxStrLen)} \cup {Undefined}

\* The characters of a direct getEditDistance call: 'A', 'a', 'b'.
DistAlphabet == {65, 97, 98}

\* The arguments of a direct getEditDistance call.
DistArgs == Strings(DistAlphabet, MaxDistLen)

\* What a caller passes as key: nothing, or "id".
KeyArgs == {Undefined, Str(<<105, 100>>)}

\* Elements of a list matched without a key: "", "a", "Ab", "AaA", the
\* number 5 and an object.
PlainElements ==
  {Str(<<>>), Str(<<97>>), Str(<<65, 98>>), Str(<<65, 97, 65>>), Num(5, 1),
   Obj(1, Undefined)}

\* Elements of a list matched by key: {}, {id: "Ab"}, {id: "ab"}, {id: "a"},
\* {id: 5}, {id: ""} and null.
KeyedElements ==
  {Obj(1, Undefined), Obj(2, Str(<<65, 98>>)), Obj(3, Str(<<97, 98>>)),
   Obj(4, Str(<<97>>)), Obj(5, Num(5, 1)), Obj(6, Str(<<>>)), Null}

Elements(k) == IF ToBoolean(k) THEN KeyedElements ELSE PlainElements

ListArgs(k) == UNION {[1..n -> Elements(k)] : n \in 0..MaxListLen}

\* Values a caller assigns to the options: null, 0, 0.4, 0.5, 1 for threshold.
Thresholds == {Null, Num(0, 1), Num(2, 5), Num(1, 2), Num(1, 1)}

\* null, or the string "?".
NullResultValues == {Null, Str(<<63>>)}

ReturnWinningObjects == {Null, Bool(TRUE), Bool(FALSE)}

\* -------------------------------------------------------------- state

VARIABLES
  threshold,            \* didYouMean.threshold
  caseSensitive,        \* didYouMean.caseSensitive
  nullResultValue,      \* didYouMean.nullResultValue
  returnWinningObject,  \* didYouMean.returnWinningObject
  pc,                   \* "idle", "loop" (inside the for loop), "done"
  str, list, key,       \* the parameters of the running call
  i, winner, winningVal,\* its locals
  candidate, val,
  result,               \* how the call ended
  argA, argB,           \* the arguments of a direct getEditDistance call
  dab, dba              \* what getEditDistance(argA, argB) and (argB, argA) returned

options == <<threshold, caseSensitive, nullResultValue, returnWinningObject>>

args == <<str, list, key>>

locals == <<i, winner, winningVal, candidate, val>>

direct == <<argA, argB, dab, dba>>

vars == <<options, pc, args, locals, result, direct>>

NoResult == [kind |-> "none", value |-> Undefined]

Return(v) == [kind |-> "return", value |-> v]

Throw(name) == [kind |-> "throw", value |-> Error(name)]

\* The function object as the closure returns it, no call running.
Constructed ==
  /\ threshold = Num(2, 5)
  /\ caseSensitive = FALSE
  /\ nullResultValue = Null
  /\ returnWinningObject = Null
  /\ pc = "idle"
  /\ str = Undefined
  /\ list = <<>>
  /\ key = Undefined
  /\ i = Undefined
  /\ winner = Undefined
  /\ winningVal = Undefined
  /\ candidate = Undefined
  /\ val = Undefined
  /\ result = NoResult

Init ==
  /\ Constructed
  /\ argA = <<>>
  /\ argB = <<>>
  /\ dab = Undefined
  /\ dba = Undefined

\* ------------------------------------------------------------ options

SetThreshold ==
  /\ pc = "idle"
  /\ \E t \in Thresholds : threshold' = t
  /\ UNCHANGED <<caseSensitive, nullResultValue, returnWinningObject, pc,
                 args, locals, result, direct>>

SetCaseSensitive ==
  /\ pc = "idle"
  /\ \E c \in BOOLEAN : caseSensitive' = c
  /\ UNCHANGED <<threshold, nullResultValue, returnWinningObject, pc,
                 args, locals, result, direct>>

SetNullResultValue ==
  /\ pc = "idle"
  /\ \E v \in NullResultValues : nullResultValue' = v
  /\ UNCHANGED <<threshold, caseSensitive, returnWinningObject, pc,
                 args, locals, result, direct>>

SetReturnWinningObject ==
  /\ pc = "idle"
  /\ \E v \in ReturnWinningObjects : returnWinningObject' = v
  /\ UNCHANGED <<threshold, caseSensitive, nullResultValue, pc,
                 args, locals, result, direct>>

\* --------------------------------------------------------- didYouMean

\* Faulty variant: an empty str is answered with the no-match value.
EarlyReturn_nullResultValue == nullResultValue

\* if (!str) return false;
EarlyReturn == Bool(FALSE)

\* Faulty variant: case is never folded.
Normalize_never(s) == s

\* if (!arguments.callee.caseSensitive) { x = x.toLowerCase(); }
Normalize(s) == IF ~caseSensitive THEN toLowerCase(s) ELSE s

\* Faulty variant: the threshold is ignored.
InitWinningVal_noThreshold(t, s) == Null

\* winningVal = threshold === null ? null : threshold * str.length
InitWinningVal(t, s) ==
  IF t = Null THEN Null ELSE Num(t.num * Len(s), t.den)

\* Faulty variant: an equal distance wins too.
Beats_orEqual(d, wv) == wv = Null \/ d * wv.den <= wv.num

\* winningVal === null || val < winningVal
Beats(d, wv) == wv = Null \/ d * wv.den < wv.num

\* if (key && arguments.callee.returnWinningObject) winner = list[i];
\* else winner = candidate;
Winner(item, folded) ==
  IF ToBoolean(key) /\ ToBoolean(returnWinningObject) THEN item ELSE folded

\* Entry of didYouMean up to the for loop's initialisation.
Call ==
  /\ pc = "idle"
  /\ \E s \in StrArgs, k \in KeyArgs :
       \E l \in ListArgs(k) :
         /\ list' = l
         /\ key' = k
         /\ IF ~ToBoolean(s)
            THEN /\ str' = s
                 /\ result' = Return(EarlyReturn)
                 /\ pc' = "done"
                 /\ UNCHANGED locals
            ELSE /\ str' = Str(Normalize(s.s))
                 /\ winner' = Undefined
                 /\ winningVal' = InitWinningVal(threshold, Normalize(s.s))
                 /\ i' = Num(0, 1)
                 /\ pc' = "loop"
                 /\ UNCHANGED <<candidate, val, result>>
  /\ UNCHANGED <<options, direct>>

\* One pass through the body of the for loop, and its i++.
LoopStep ==
  /\ pc = "loop"
  /\ i.num < Len(list)
  /\ LET item == list[i.num + 1] IN
     IF ToBoolean(key) /\ item.t \in {"undefined", "null"}
     THEN \* candidate[key] on null or undefined
          /\ candidate' = item
          /\ result' = Throw("TypeError")
          /\ pc' = "done"
          /\ UNCHANGED <<i, winner, winningVal, val>>
     ELSE
       LET extracted == IF ToBoolean(key) THEN GetProp(item, key) ELSE item IN
       IF ~ToBoolean(extracted)
       THEN \* continue
            /\ candidate' = extracted
            /\ i' = Num(i.num + 1, 1)
            /\ UNCHANGED <<winner, winningVal, val, pc, result>>
       ELSE IF extracted.t # "string"
       THEN \* candidate.toLowerCase is not a function; in a case-sensitive
            \* search getEditDistance finds b.length undefined, builds no
            \* rows and fails on matrix[0][j] = j
            /\ candidate' = extracted
            /\ result' = Throw("TypeError")
            /\ pc' = "done"
            /\ UNCHANGED <<i, winner, winningVal, val>>
       ELSE
         LET folded == Str(Normalize(extracted.s))
             d == getEditDistance(str.s, folded.s)
         IN /\ candidate' = folded
            /\ val' = Num(d, 1)
            /\ IF Beats(d, winningVal)
               THEN /\ winningVal' = Num(d, 1)
                    /\ winner' = Winner(item, folded)
               ELSE UNCHANGED <<winner, winningVal>>
            /\ i' = Num(i.num + 1, 1)
            /\ UNCHANGED <<pc, result>>
  /\ UNCHANGED <<options, args, direct>>

\* return winner || argument.callee.nullResultValue;
\* No variable named argument exists: evaluating the right operand raises
\* a ReferenceError.
ReturnWinner ==
  /\ pc = "loop"
  /\ i.num >= Len(list)
  /\ result' = IF ToBoolean(winner) THEN Return(winner)
               ELSE Throw("ReferenceError")
  /\ pc' = "done"
  /\ UNCHANGED <<options, args, locals, direct>>

\* The call is over: its frame is gone, the options stay.
Finish ==
  /\ pc = "done"
  /\ pc' = "idle"
  /\ str' = Undefined
  /\ list' = <<>>
  /\ key' = Undefined
  /\ i' = Undefined
  /\ winner' = Undefined
  /\ winningVal' = Undefined
  /\ candidate' = Undefined
  /\ val' = Undefined
  /\ result' = NoResult
  /\ UNCHANGED <<options, direct>>

Next ==
  \/ SetThreshold
  \/ SetCaseSensitive
  \/ SetNullResultValue
  \/ SetReturnWinningObject
  \/ Call
  \/ LoopStep
  \/ ReturnWinner
  \/ Finish

Spec == Init /\ [][Next]_vars

\* ----------------------------------------- getEditDistance, directly

InitDist ==
  /\ Constructed
  /\ argA \in DistArgs
  /\ argB \in DistArgs
  /\ dab = Undefined
  /\ dba = Undefined

DistAB ==
  /\ dab = Undefined
  /\ dab' = Num(getEditDistance(argA, argB), 1)
  /\ UNCHANGED <<options, pc, args, locals, result, argA, argB, dba>>

DistBA ==
  /\ dba = Undefined
  /\ dba' = Num(getEditDistance(argB, argA), 1)
  /\ UNCHANGED <<options, pc, args, locals, result, argA, argB, dab>>

NextDist == DistAB \/ DistBA

SpecDist == InitDist /\ [][NextDist]_vars

\* ------------------------------------------- what the claims speak of

\* The Levenshtein distance by its defining recurrence on the strings' tails:
\* the cheapest of deleting, inserting, and substituting or keeping the head.
RECURSIVE Levenshtein(_, _)
Levenshtein(x, y) ==
  IF Len(x) = 0 THEN Len(y)
  ELSE IF Len(y) = 0 THEN Len(x)
  ELSE Min(Levenshtein(Tail(x), y) + 1,
           Min(Levenshtein(x, Tail(y)) + 1,
               Levenshtein(Tail(x), Tail(y))
                 + (IF Head(x) = Head(y) THEN 0 ELSE 1)))

\* The strings one deletion, one insertion or one substitution away from x.
Edits(x) ==
  {SubSeq(x, 1, p - 1) \o SubSeq(x, p + 1, Len(x)) : p \in 1..Len(x)}
  \cup {SubSeq(x, 1, p) \o <<c>> \o SubSeq(x, p + 1, Len(x)) :
          p \in 0..Len(x), c \in DistAlphabet}
  \cup {[x EXCEPT ![p] = c] : p \in 1..Len(x), c \in DistAlphabet}

Keyed == ToBoolean(key)

\* The comparison value of the k-th element as the caller supplied it.
Comparison(k) ==
  IF ~Keyed THEN list[k]
  ELSE IF list[k].t \in {"undefined", "null"} THEN Undefined
  ELSE GetProp(list[k], key)

\* The k-th element has a non-empty comparison string.
WellFormed(k) == Comparison(k).t = "string" /\ Len(Comparison(k).s) > 0

\* Its comparison value is a string or is missing (an array of strings, or
\* of records whose key field, where present, is a string).
Comparable(k) == WellFormed(k) \/ ~ToBoolean(Comparison(k))

Fold(s) == IF caseSensitive THEN s ELSE toLowerCase(s)

Distance(k) == Levenshtein(Fold(str.s), Fold(Comparison(k).s))

Within(d) ==
  threshold = Null \/ d * threshold.den < threshold.num * Len(str.s)

Qualifying == {k \in 1..Len(list) : WellFormed(k) /\ Within(Distance(k))}

\* k qualifies, at the least distance, and first among those at that distance.
IsBest(k) ==
  /\ k \in Qualifying
  /\ \A j \in Qualifying :
       Distance(k) < Distance(j) \/ (Distance(k) = Distance(j) /\ k <= j)

\* A call with a non-empty str is over.
Matched == pc = "done" /\ ToBoolean(str)

Returned == Matched /\ result.kind = "return"

\* The value returned was made from the k-th element: it is that element, or
\* it is its comparison string up to the case folding of the search.
WonBy(k) ==
  IF Keyed /\ ToBoolean(returnWinningObject)
  THEN result.value = list[k]
  ELSE /\ result.value.t = "string"
       /\ WellFormed(k)
       /\ Fold(result.value.s) = Fold(Comparison(k).s)

\* x < y and x <= y on numbers.
Less(x, y) == x.num * y.den < y.num * x.den

LessEq(x, y) == x.num * y.den <= y.num * x.den

\* The two strings are of one length and differ, by letter case alone.
OnlyCaseDiffers(x, y) ==
  Len(x) = Len(y) /\ toLowerCase(x) = toLowerCase(y) /\ x # y

CaseDiffs(x, y) == Cardinality({p \in 1..Len(x) : x[p] # y[p]})

\* The loop has just measured the element at (1-based) position i.
Measured == pc = "loop" /\ i.num >= 1 /\ WellFormed(i.num)

\* ------------------------------------------------------------- claims

\* C1: for a non-empty str and a list of strings, or of records with a string
\* or no key field, in which no candidate qualifies under the threshold
\* (the empty list included), didYouMean returns the value of the
\* nullResultValue option as a normal return value.
C1_NoMatchReturnsNullResultValue ==
  (Matched /\ Qualifying = {} /\ \A k \in 1..Len(list) : Comparable(k))
    => result = Return(nullResultValue)

\* C2: with a numeric threshold t, a candidate returned for a non-empty str
\* is at a distance d < t * length(str), strictly, and no candidate with a
\* non-empty comparison string is nearer than d; with t = 0 nothing is
\* returned.
C2_WinnerStrictlyBelowThreshold ==
  /\ (Returned /\ threshold # Null) =>
       \E k \in 1..Len(list) :
         /\ WellFormed(k)
         /\ WonBy(k)
         /\ Distance(k) * threshold.den < threshold.num * Len(str.s)
         /\ \A j \in 1..Len(list) :
              WellFormed(j) => Distance(j) >= Distance(k)
  /\ (Matched /\ threshold # Null /\ threshold.num = 0) =>
       result.kind # "return"

C2_Witness ==
  /\ Returned
  /\ threshold = Num(1, 1)
  /\ \E k, j \in 1..Len(list) :
       /\ WellFormed(k) /\ WonBy(k) /\ Distance(k) < Len(str.s)
       /\ WellFormed(j) /\ Distance(j) = Len(str.s)

\* C3: among the candidates at the least qualifying distance the one with
\* the smallest index is returned; during the scan the running best never
\* grows, and the tentative winner changes only for a strictly smaller
\* distance.
C3_FirstMinimalWins ==
  /\ [](Returned => \E k \in 1..Len(list) : IsBest(k) /\ WonBy(k))
  /\ [][(pc = "loop" /\ pc' = "loop") =>
          /\ winningVal # Null =>
               (winningVal' # Null /\ LessEq(winningVal', winningVal))
          /\ winner' # winner =>
               (winningVal = Null \/ Less(val', winningVal))]_vars

C3_Witness ==
  /\ Returned
  /\ \E k, j \in Qualifying :
       /\ k < j
       /\ IsBest(k)
       /\ Distance(j) = Distance(k)
       /\ WonBy(k)
       /\ ~WonBy(j)

\* C4: with threshold null, a non-empty str and a list holding at least one
\* candidate with a non-empty comparison string, didYouMean returns a
\* candidate at the least distance; it never ends otherwise.
C4_NullThresholdReturnsClosest ==
  (Matched /\ threshold = Null /\ \E k \in 1..Len(list) : WellFormed(k))
    => (Returned /\ \E k \in 1..Len(list) : IsBest(k) /\ WonBy(k))

\* C5: an empty or absent str is answered with false, whatever the list and
\* the options; never with nullResultValue, and before the loop has read
\* any element of the list.
C5_EmptyInputReturnsFalse ==
  (pc = "done" /\ ~ToBoolean(str)) =>
    /\ result = Return(Bool(FALSE))
    /\ result # Return(nullResultValue)
    /\ i = Undefined
    /\ candidate = Undefined
    /\ winner = Undefined

C5_Witness ==
  /\ pc = "done"
  /\ str = Str(<<>>)
  /\ Len(list) = MaxListLen
  /\ threshold = Null
  /\ caseSensitive
  /\ nullResultValue # Null
  /\ ToBoolean(returnWinningObject)
  /\ result = Return(Bool(FALSE))

\* C6: a list with malformed elements (no key field, an empty string, a
\* non-string value) raises no error and gives the result of the list
\* without them; stated where a well-formed candidate qualifies.
C6_MalformedElementsSkipped ==
  (Matched /\ Qualifying # {} /\ \E k \in 1..Len(list) : ~WellFormed(k))
    => (Returned /\ \E k \in 1..Len(list) : IsBest(k) /\ WonBy(k))

\* C7: a successful result is the winning element itself when a key is given
\* and returnWinningObject is true, the string extracted from the winning
\* record when a key is given and returnWinningObject is not true, and a
\* string when no key is given; which element wins does not depend on
\* returnWinningObject.
C7_ResultShape ==
  Returned =>
    \E k \in 1..Len(list) :
      /\ IsBest(k)
      /\ IF Keyed /\ ToBoolean(returnWinningObject)
         THEN result.value = list[k]
         ELSE IF Keyed
         THEN result.value = GetProp(list[k], key)
         ELSE result.value.t = "string" /\ WonBy(k)

\* C8: getEditDistance(a, b) is the Levenshtein distance of a and b, the
\* least number of single-character insertions, deletions and
\* substitutions turning a into b: it is 0 exactly for a = b, moves by at
\* most 1 under one edit of a, and some edit of a brings it 1 nearer;
\* getEditDistance("", b) is the length of b, and the distance is
\* symmetric.
C8_EditDistanceIsLevenshtein ==
  /\ dab # Undefined =>
       /\ dab.num = Levenshtein(argA, argB)
       /\ (dab.num = 0) = (argA = argB)
       /\ argA = <<>> => dab.num = Len(argB)
       /\ \A c \in Edits(argA) : dab.num <= getEditDistance(c, argB) + 1
       /\ dab.num > 0 =>
            \E c \in Edits(argA) : getEditDistance(c, argB) = dab.num - 1
  /\ (dab # Undefined /\ dba # Undefined) => dab = dba

C8_Witness ==
  /\ dab # Undefined
  /\ dba # Undefined
  /\ Len(argA) = MaxDistLen
  /\ Len(argB) = 2
  /\ dab.num = 2
  /\ \E p \in 1..2 : argA[p] = argB[p]

\* C9 as stated: in a case-insensitive search the distance used for a
\* candidate is that of the lower-cased str and the lower-cased candidate (0
\* when they differ in case alone) and the winner is decided by those
\* distances; in a case-sensitive search nothing is folded and every
\* position where the two strings differ only in case counts as one edit.
C9_CaseDiffsEachCountOne ==
  /\ (Measured /\ ~caseSensitive) =>
       /\ val.num = Levenshtein(toLowerCase(str.s),
                                toLowerCase(Comparison(i.num).s))
       /\ toLowerCase(Comparison(i.num).s) = toLowerCase(str.s) => val.num = 0
  /\ (Returned /\ ~caseSensitive) =>
       \E k \in 1..Len(list) : IsBest(k) /\ WonBy(k)
  /\ (Measured /\ caseSensitive) =>
       /\ val.num = Levenshtein(str.s, Comparison(i.num).s)
       /\ OnlyCaseDiffers(str.s, Comparison(i.num).s) =>
            val.num = CaseDiffs(str.s, Comparison(i.num).s)

\* C9 as amended: in a case-sensitive search a candidate that differs from
\* str in letter case alone is at a distance of at least 1 and at most the
\* number of positions where they differ.
C9_CaseFolding ==
  /\ (Measured /\ ~caseSensitive) =>
       /\ val.num = Levenshtein(toLowerCase(str.s),
                                toLowerCase(Comparison(i.num).s))
       /\ toLowerCase(Comparison(i.num).s) = toLowerCase(str.s) => val.num = 0
  /\ (Returned /\ ~caseSensitive) =>
       \E k \in 1..Len(list) : IsBest(k) /\ WonBy(k)
  /\ (Measured /\ caseSensitive) =>
       /\ val.num = Levenshtein(str.s, Comparison(i.num).s)
       /\ OnlyCaseDiffers(str.s, Comparison(i.num).s) =>
            /\ val.num >= 1
            /\ val.num <= CaseDiffs(str.s, Comparison(i.num).s)

C9_Witness ==
  /\ Measured
  /\ caseSensitive
  /\ OnlyCaseDiffers(str.s, Comparison(i.num).s)
  /\ CaseDiffs(str.s, Comparison(i.num).s) = 3
  /\ val.num = 2

\* C10: a string returned is, character for character and in letter case,
\* the comparison string of some element of the list as the caller supplied
\* it, whether the search is case-sensitive or not.
C10_ReturnedStringIsCallerSupplied ==
  (Returned /\ result.value.t = "string") =>
    \E k \in 1..Len(list) : WellFormed(k) /\ result.value = Comparison(k)

====
